---- MODULE Spec2Model ----
(***************************************************************************)
(* Model of the try_hard crate: the SoftResult / MalleableResult types,    *)
(* the try_soft! and try_hard! macros, and the functions of the test       *)
(* module that expand them (tries_hard, tries_soft) together with the      *)
(* test drivers check_try_hard and check_try_soft.                         *)
(*                                                                         *)
(* A SoftResult is a pair <<tag, payload>> with tag "Ok" or "SoftErr".     *)
(* A MalleableResult is core Result: <<"Ok", softResult>> or <<"Err", e>>. *)
(***************************************************************************)
EXTENDS Integers, Sequences, FiniteSets, TLC

VARIABLES test, phase, stack, has_skipped, evals, result, passed, ord, eq

vars == <<test, phase, stack, has_skipped, evals, result, passed, ord, eq>>

(* ---- bounds ---- *)
MaxVal == 2
MaxSoftErr == 1
MaxHardErr == 1
MaxDepth == 3

Vals == 0..MaxVal
SoftErrors == 0..MaxSoftErr
HardErrors == 0..MaxHardErr
Levels == 1..MaxDepth

(* ---- the types ---- *)
SoftOk(t) == <<"Ok", t>>
SoftErr(e) == <<"SoftErr", e>>
ResultOk(s) == <<"Ok", s>>
ResultErr(e) == <<"Err", e>>

SoftResult == {SoftOk(t) : t \in Vals} \cup {SoftErr(e) : e \in SoftErrors}
MalleableResult == {ResultOk(s) : s \in SoftResult} \cup {ResultErr(e) : e \in HardErrors}

NoVal == <<"None">>

(* ---- derive(PartialEq, Eq) ---- *)
SoftResultEq(a, b) == a[1] = b[1] /\ a[2] = b[2]

ResultEq(a, b) ==
    /\ a[1] = b[1]
    /\ IF a[1] = "Ok" THEN SoftResultEq(a[2], b[2]) ELSE a[2] = b[2]

(* ---- derive(PartialOrd, Ord): discriminant in declaration order, then payload ---- *)
(* the variants declared in the other order *)
Discriminant_swapped(s) == IF s[1] = "Ok" THEN 1 ELSE 0

Discriminant(s) == IF s[1] = "Ok" THEN 0 ELSE 1

IntCmp(m, n) == IF m < n THEN "Less" ELSE IF m = n THEN "Equal" ELSE "Greater"

SoftResultCmp(a, b) ==
    IF Discriminant(a) # Discriminant(b)
    THEN IntCmp(Discriminant(a), Discriminant(b))
    ELSE IntCmp(a[2], b[2])

(* ---- the macros: what the expansion does with the value of its operand ---- *)
(* exit "value": the match expression evaluates to val;                         *)
(* exit "return": the enclosing function returns val.                           *)
(* the Ok arm yields a default value instead of the payload *)
try_soft_default(e) ==
    IF e[1] = "Ok"
    THEN [exit |-> "value", val |-> 0]
    ELSE [exit |-> "return", val |-> ResultOk(SoftErr(e[2]))]

(* the SoftErr arm returns the error in the hard tier *)
try_soft_hardens(e) ==
    IF e[1] = "Ok"
    THEN [exit |-> "value", val |-> e[2]]
    ELSE [exit |-> "return", val |-> ResultErr(e[2])]

(* the Ok arm returns from the enclosing function as well *)
try_soft_early(e) ==
    IF e[1] = "Ok"
    THEN [exit |-> "return", val |-> ResultOk(SoftOk(e[2]))]
    ELSE [exit |-> "return", val |-> ResultOk(SoftErr(e[2]))]

(* the SoftErr arm goes on with the payload instead of returning *)
try_soft_swallow(e) == [exit |-> "value", val |-> e[2]]

try_soft(e) ==
    IF e[1] = "Ok"
    THEN [exit |-> "value", val |-> e[2]]
    ELSE [exit |-> "return", val |-> ResultOk(SoftErr(e[2]))]

(* the Err arm returns the error in the soft tier *)
try_hard_demote(e) ==
    IF e[1] = "Ok"
    THEN try_soft(e[2])
    ELSE [exit |-> "return", val |-> ResultOk(SoftErr(e[2]))]

(* the Ok arm returns a soft error in the hard tier *)
try_hard_promote(e) ==
    IF e[1] = "Ok"
    THEN IF e[2][1] = "Ok"
         THEN [exit |-> "value", val |-> e[2][2]]
         ELSE [exit |-> "return", val |-> ResultErr(e[2][2])]
    ELSE [exit |-> "return", val |-> ResultErr(e[2])]

(* the Ok arm unwraps the inner result without matching its variant *)
try_hard_swallow(e) ==
    IF e[1] = "Ok"
    THEN [exit |-> "value", val |-> e[2][2]]
    ELSE [exit |-> "return", val |-> ResultErr(e[2])]

try_hard(e) ==
    IF e[1] = "Ok"
    THEN try_soft(e[2])
    ELSE [exit |-> "return", val |-> ResultErr(e[2])]

(* ---- test cases ---- *)
ExpectedSkip(r) == ~(r[1] = "Ok" /\ r[2][1] = "Ok")

HardCases ==
    {[fn |-> "tries_hard", input |-> r, depth |-> d, expected_skip |-> ExpectedSkip(r)] :
        r \in MalleableResult, d \in Levels}

SoftCases ==
    {[fn |-> "tries_soft", input |-> s, depth |-> 1, expected_skip |-> TRUE] :
        s \in SoftResult}

CmpCases ==
    {[fn |-> "cmp", input |-> <<a, b>>, depth |-> 1, expected_skip |-> TRUE] :
        a \in SoftResult, b \in SoftResult}

Frame(f) == [fn |-> f, pc |-> "eval", scrut |-> NoVal, x |-> <<>>]

Init ==
    /\ test \in HardCases \cup SoftCases \cup CmpCases
    /\ phase = "ready"
    /\ stack = <<>>
    /\ has_skipped = [l \in Levels |-> TRUE]
    /\ evals = [l \in Levels |-> 0]
    /\ result = NoVal
    /\ passed = FALSE
    /\ ord = "None"
    /\ eq = FALSE

Level == Len(stack)
Top == stack[Level]
SetTop(f) == [stack EXCEPT ![Level] = f]

(* the driver calls the function under test *)
Call ==
    /\ phase = "ready"
    /\ test.fn \in {"tries_hard", "tries_soft"}
    /\ stack' = <<Frame(test.fn)>>
    /\ phase' = "running"
    /\ UNCHANGED <<test, has_skipped, evals, result, passed, ord, eq>>

(* an expansion that names $e twice *)
EvalArgTwice ==
    /\ phase = "running"
    /\ Top.pc = "eval"
    /\ Level = test.depth
    /\ evals' = [evals EXCEPT ![Level] = @ + 2]
    /\ stack' = SetTop([Top EXCEPT !.scrut = test.input, !.pc = "match"])
    /\ UNCHANGED <<test, phase, has_skipped, result, passed, ord, eq>>

(* `match $e`: the operand is the function's argument *)
EvalArg ==
    /\ phase = "running"
    /\ Top.pc = "eval"
    /\ Level = test.depth
    /\ evals' = [evals EXCEPT ![Level] = @ + 1]
    /\ stack' = SetTop([Top EXCEPT !.scrut = test.input, !.pc = "match"])
    /\ UNCHANGED <<test, phase, has_skipped, result, passed, ord, eq>>

(* `match $e`: the operand is a call of the next function of the chain *)
EvalCall ==
    /\ phase = "running"
    /\ Top.pc = "eval"
    /\ Level < test.depth
    /\ evals' = [evals EXCEPT ![Level] = @ + 1]
    /\ stack' = Append(SetTop([Top EXCEPT !.pc = "wait"]), Frame("tries_hard"))
    /\ UNCHANGED <<test, phase, has_skipped, result, passed, ord, eq>>

(* `return v`: the top frame is left; v goes to the caller *)
Return(v) ==
    IF Level = 1
    THEN /\ stack' = <<>>
         /\ result' = v
         /\ phase' = "returned"
    ELSE /\ stack' = [SubSeq(stack, 1, Level - 1) EXCEPT
                         ![Level - 1] = [@ EXCEPT !.scrut = v, !.pc = "match"]]
         /\ UNCHANGED <<result, phase>>

(* tries_hard: let x = try_hard!(hard_result); *)
MatchHard ==
    /\ phase = "running"
    /\ Top.fn = "tries_hard"
    /\ Top.pc = "match"
    /\ LET m == try_hard(Top.scrut) IN
         IF m.exit = "value"
         THEN /\ stack' = SetTop([Top EXCEPT !.x = <<m.val>>, !.pc = "flag"])
              /\ UNCHANGED <<result, phase>>
         ELSE Return(m.val)
    /\ UNCHANGED <<test, has_skipped, evals, passed, ord, eq>>

(* tries_hard: *has_skipped = false; *)
SetFlag ==
    /\ phase = "running"
    /\ Top.pc = "flag"
    /\ has_skipped' = [has_skipped EXCEPT ![Level] = FALSE]
    /\ stack' = SetTop([Top EXCEPT !.pc = "ret"])
    /\ UNCHANGED <<test, phase, evals, result, passed, ord, eq>>

(* tries_soft: the try_soft!(soft_result) inside Ok(SoftResult::Ok(..)) *)
MatchSoft ==
    /\ phase = "running"
    /\ Top.fn = "tries_soft"
    /\ Top.pc = "match"
    /\ LET m == try_soft(Top.scrut) IN
         IF m.exit = "value"
         THEN /\ stack' = SetTop([Top EXCEPT !.x = <<m.val>>, !.pc = "ret"])
              /\ UNCHANGED <<result, phase>>
         ELSE Return(m.val)
    /\ UNCHANGED <<test, has_skipped, evals, passed, ord, eq>>

(* the tail expression Ok(SoftResult::Ok(x)) of both functions *)
ReturnOk ==
    /\ phase = "running"
    /\ Top.pc = "ret"
    /\ Return(ResultOk(SoftOk(Top.x[1])))
    /\ UNCHANGED <<test, has_skipped, evals, passed, ord, eq>>

(* the assert_eq! lines of check_try_hard and check_try_soft *)
Expected == IF test.fn = "tries_soft" THEN ResultOk(test.input) ELSE test.input

AssertEq ==
    /\ phase = "returned"
    /\ passed' = (/\ ResultEq(result, Expected)
                  /\ test.fn = "tries_hard" => has_skipped[1] = test.expected_skip)
    /\ phase' = "asserted"
    /\ UNCHANGED <<test, stack, has_skipped, evals, result, ord, eq>>

(* a.cmp(&b) and a == b on two SoftResult values *)
Compare ==
    /\ phase = "ready"
    /\ test.fn = "cmp"
    /\ ord' = SoftResultCmp(test.input[1], test.input[2])
    /\ eq' = SoftResultEq(test.input[1], test.input[2])
    /\ phase' = "compared"
    /\ UNCHANGED <<test, stack, has_skipped, evals, result, passed>>

Next ==
    \/ Call
    \/ EvalArg
    \/ EvalCall
    \/ MatchHard
    \/ SetFlag
    \/ MatchSoft
    \/ ReturnOk
    \/ AssertEq
    \/ Compare

Spec == Init /\ [][Next]_vars

TypeOK ==
    /\ phase \in {"ready", "running", "returned", "asserted", "compared"}
    /\ Len(stack) <= MaxDepth
    /\ \A l \in Levels : has_skipped[l] \in BOOLEAN /\ evals[l] \in 0..2
    /\ passed \in BOOLEAN

(* ---- shapes of the case under test ---- *)
Hard == test.fn = "tries_hard"
Soft == test.fn = "tries_soft"
Done == phase \in {"returned", "asserted"}
InFailed == Hard /\ test.input[1] = "Err"
InSoftErr == Hard /\ test.input[1] = "Ok" /\ test.input[2][1] = "SoftErr"
InOk == Hard /\ test.input[1] = "Ok" /\ test.input[2][1] = "Ok"
Chain == 1..test.depth
PastMacro(l) == l <= Len(stack) /\ stack[l].pc \in {"flag", "ret"}
IsFailed(r, e) == r[1] = "Err" /\ r[2] = e
IsCompletedSoftErr(r, e) == r[1] = "Ok" /\ r[2][1] = "SoftErr" /\ r[2][2] = e
IsCompletedOk(r, v) == r[1] = "Ok" /\ r[2][1] = "Ok" /\ r[2][2] = v

(* C1: a function that applies try_hard! to Err(e) returns exactly Err(e),   *)
(* no statement after the macro runs and has_skipped keeps its initial TRUE. *)
C1_HardErrReturned ==
    InFailed =>
        /\ \A l \in Chain : has_skipped[l] = TRUE /\ ~PastMacro(l)
        /\ Done => IsFailed(result, test.input[2])

C1_Witness ==
    /\ InFailed
    /\ phase = "returned"
    /\ IsFailed(result, test.input[2])
    /\ evals[1] = 1
    /\ has_skipped[1] = TRUE

(* C2: a function that applies try_hard! to Ok(SoftErr(e)) returns exactly   *)
(* Ok(SoftErr(e)), the value try_soft! returns for SoftErr(e); no statement  *)
(* after the macro runs and has_skipped keeps its initial TRUE.              *)
C2_SoftErrReturned ==
    InSoftErr =>
        /\ \A l \in Chain : has_skipped[l] = TRUE /\ ~PastMacro(l)
        /\ Done => /\ IsCompletedSoftErr(result, test.input[2][2])
                   /\ try_soft(test.input[2]).exit = "return"
                   /\ ResultEq(result, try_soft(test.input[2]).val)

C2_Witness ==
    /\ InSoftErr
    /\ phase = "returned"
    /\ IsCompletedSoftErr(result, test.input[2][2])
    /\ evals[1] = 1
    /\ has_skipped[1] = TRUE

(* C3: try_hard! applied to Ok(Ok(v)) evaluates to exactly v and execution   *)
(* continues: the statements after the macro run, has_skipped becomes FALSE. *)
C3_OkExtracted ==
    InOk =>
        /\ \A l \in Chain :
              /\ PastMacro(l) => stack[l].x = <<test.input[2][2]>>
              /\ (l <= Len(stack) /\ stack[l].pc = "ret") => has_skipped[l] = FALSE
        /\ Done => \A l \in Chain : has_skipped[l] = FALSE

C3_Witness ==
    /\ InOk
    /\ test.input[2][2] = MaxVal
    /\ Len(stack) = 1
    /\ stack[1].pc = "ret"
    /\ stack[1].x = <<MaxVal>>
    /\ has_skipped[1] = FALSE

(* C4: a function that applies try_soft! to SoftErr(e) returns               *)
(* Ok(SoftErr(e)) at once: the code after the macro is never reached.        *)
C4_SoftShortCircuit ==
    (Soft /\ test.input[1] = "SoftErr") =>
        /\ \A l \in 1..Len(stack) : stack[l].pc # "ret" /\ stack[l].x = <<>>
        /\ Done => IsCompletedSoftErr(result, test.input[2])

C4_Witness ==
    /\ Soft
    /\ test.input[1] = "SoftErr"
    /\ test.input[2] = MaxSoftErr
    /\ phase = "returned"
    /\ IsCompletedSoftErr(result, MaxSoftErr)

(* C5: try_soft! applied to Ok(v) evaluates to exactly v without returning:  *)
(* the function goes on with v bound and returns Ok(Ok(v)).                  *)
SoftOkState ==
    (Soft /\ test.input[1] = "Ok") =>
        /\ (phase = "running" /\ stack[1].pc \notin {"eval", "match"}) =>
               /\ stack[1].pc = "ret"
               /\ stack[1].x = <<test.input[2]>>
        /\ Done => IsCompletedOk(result, test.input[2])

SoftOkStep ==
    (Soft /\ test.input[1] = "Ok" /\ phase = "running" /\ stack[1].pc = "match"
          /\ stack' # stack) =>
        /\ phase' = "running"
        /\ Len(stack') = 1
        /\ stack'[1].pc = "ret"
        /\ stack'[1].x = <<test.input[2]>>

C5_SoftOkExtracted == []SoftOkState /\ [][SoftOkStep]_vars

C5_Witness ==
    /\ Soft
    /\ test.input[1] = "Ok"
    /\ test.input[2] = MaxVal
    /\ phase = "running"
    /\ stack[1].pc = "ret"
    /\ stack[1].x = <<MaxVal>>

(* C6: in a chain of functions that each apply try_hard! to the result of    *)
(* the next, a failure of the innermost reaches every level and the          *)
(* outermost caller with its tier and payload unchanged.                     *)
Unchanged(r) ==
    IF test.input[1] = "Err"
    THEN IsFailed(r, test.input[2])
    ELSE IsCompletedSoftErr(r, test.input[2][2])

C6_NoTierChange ==
    (InFailed \/ InSoftErr) =>
        /\ \A l \in 1..Len(stack) : stack[l].pc = "match" => Unchanged(stack[l].scrut)
        /\ Done => Unchanged(result)

C6_Witness ==
    /\ InFailed \/ InSoftErr
    /\ test.depth = MaxDepth
    /\ Len(stack) = 1
    /\ stack[1].pc = "match"
    /\ Unchanged(stack[1].scrut)

(* C7: tries_hard returns a result equal to its input in all three shapes,   *)
(* and has written has_skipped exactly when the input is Ok(Ok(_)).          *)
C7_Identity ==
    (Hard /\ Done) =>
        /\ ResultEq(result, test.input)
        /\ \A l \in Chain : (has_skipped[l] = FALSE) <=> InOk
        /\ phase = "asserted" => passed

C7_Witness ==
    /\ Hard
    /\ phase = "asserted"
    /\ passed
    /\ ResultEq(result, test.input)

(* C8: every macro expansion leaves by exactly one of two exits: it goes on  *)
(* with the extracted success value iff the operand is a success, and it     *)
(* returns the classified failure from the enclosing function otherwise.     *)
OperandOk(f) ==
    IF f.fn = "tries_hard"
    THEN f.scrut[1] = "Ok" /\ f.scrut[2][1] = "Ok"
    ELSE f.scrut[1] = "Ok"

OperandValue(f) == IF f.fn = "tries_hard" THEN f.scrut[2][2] ELSE f.scrut[2]

Classified(f, r) ==
    IF f.fn = "tries_hard"
    THEN IF f.scrut[1] = "Err"
         THEN IsFailed(r, f.scrut[2])
         ELSE IsCompletedSoftErr(r, f.scrut[2][2])
    ELSE IsCompletedSoftErr(r, f.scrut[2])

Continued ==
    /\ Len(stack') = Len(stack)
    /\ stack'[Level].pc \in {"flag", "ret"}
    /\ stack'[Level].x = <<OperandValue(Top)>>
    /\ result' = result

Returned ==
    /\ Len(stack') = Len(stack) - 1
    /\ IF Level = 1
       THEN phase' = "returned" /\ Classified(Top, result')
       ELSE stack'[Level - 1].pc = "match" /\ Classified(Top, stack'[Level - 1].scrut)

MacroStep == phase = "running" /\ Top.pc = "match" /\ stack' # stack

C8_OneExit ==
    [][MacroStep =>
         IF OperandOk(Top) THEN Continued /\ Len(stack') # Len(stack) - 1
                           ELSE Returned /\ Len(stack') # Len(stack)]_vars

C8_Witness ==
    /\ Hard
    /\ test.depth = 2
    /\ Len(stack) = 1
    /\ stack[1].pc = "match"
    /\ ~OperandOk(stack[1])

(* C9: SoftResult is totally ordered by variant first (Ok before SoftErr)    *)
(* and by payload only between equal variants; equality is structural.       *)
Reverse(o) == IF o = "Less" THEN "Greater" ELSE IF o = "Greater" THEN "Less" ELSE "Equal"

C9_VariantOrder ==
    phase = "compared" =>
        LET a == test.input[1]
            b == test.input[2]
        IN /\ (a[1] = "Ok" /\ b[1] = "SoftErr") => ord = "Less"
           /\ (a[1] = "SoftErr" /\ b[1] = "Ok") => ord = "Greater"
           /\ a[1] = b[1] => ord = IntCmp(a[2], b[2])
           /\ eq <=> (a[1] = b[1] /\ a[2] = b[2])
           /\ eq <=> (ord = "Equal")
           /\ SoftResultCmp(b, a) = Reverse(ord)
           /\ \A c \in SoftResult :
                 (ord = "Less" /\ SoftResultCmp(b, c) = "Less") => SoftResultCmp(a, c) = "Less"

C9_Witness ==
    /\ phase = "compared"
    /\ test.input[1] = SoftOk(MaxVal)
    /\ test.input[2] = SoftErr(0)
    /\ ord = "Less"
    /\ ~eq

(* C10: every macro expansion evaluates its operand exactly once, on each    *)
(* of the three paths.                                                       *)
C10_OperandOnce ==
    /\ \A l \in Levels :
          IF l <= Len(stack)
          THEN evals[l] = (IF stack[l].pc = "eval" THEN 0 ELSE 1)
          ELSE evals[l] <= 1
    /\ (Done /\ test.fn # "cmp") => \A l \in Chain : evals[l] = 1

C10_Witness ==
    /\ phase = "returned"
    /\ test.depth = MaxDepth
    /\ \A l \in Chain : evals[l] = 1
====
